---- MODULE Spec2Model ----
(***************************************************************************)
(* Model of stock_market/metrics.py: construction of a Metrics object      *)
(* (price/volume panel, delisted-ticker reconciliation, shares-outstanding *)
(* resolution, capitalization panel), its query methods, and the backward  *)
(* replay of the S&P 500 change log.                                       *)
(*                                                                         *)
(* Dates are day numbers 1..MaxDay.  Months are blocks of DaysPerMonth     *)
(* days, years blocks of MonthsPerYear months.  The panel calendar         *)
(* (self.data.index) is FirstDay..LastDay.                                 *)
(*                                                                         *)
(* A float is a pair <<n, d>>: d > 0 is the number n/d in lowest terms,    *)
(* <<0, 0>> is NaN and <<1, 0>> is +inf.  All numbers of the program are   *)
(* non-negative.  An optional date (None or a Timestamp) is <<>> or <<d>>. *)
(***************************************************************************)
EXTENDS Integers, Sequences, FiniteSets, TLC

VARIABLES
    env,        \* constructor arguments and the answers of the data feeds
    self,       \* attributes of the Metrics object set so far
    pc,         \* position in __init__, "constructed" or "raised"
    err,        \* the exception __init__ raised ("" when none)
    i,          \* loop counter of the loop __init__ is in
    delisted_tickers,   \* the local of that name in __init__
    result,     \* what the last query call returned or raised
    rp          \* state of get_sp500_historical_components
vars == <<env, self, pc, err, i, delisted_tickers, result, rp>>

-----------------------------------------------------------------------------
(* Bounds of the model *)
PreDays == 2         \* days of the universe before the panel's first date
NumDays == 4         \* length of the panel calendar
DaysPerMonth == 2
MonthsPerYear == 2
MaxN == 4            \* largest n of a top-n query
MaxEvents == 3       \* longest change log replayed

TRADING_DAYS_IN_YEAR == 252

FirstDay == PreDays + 1
LastDay == PreDays + NumDays
MaxDay == LastDay + DaysPerMonth
Days == 1..MaxDay
Cal == FirstDay..LastDay
Tickers == {"A", "B", "C"}
None == <<>>
Some(d) == <<d>>

-----------------------------------------------------------------------------
(* Floats *)
NaN == <<0, 0>>
Inf == <<1, 0>>
Num(n) == <<n, 1>>
Zero == Num(0)

RECURSIVE Gcd(_, _)
Gcd(a, b) == IF b = 0 THEN a ELSE Gcd(b, a % b)

Rat(n, d) == LET g == Gcd(n, d) IN <<n \div g, d \div g>>

IsNaN(x) == x = NaN
IsInf(x) == x = Inf

FAdd(x, y) ==
    IF IsNaN(x) \/ IsNaN(y) THEN NaN
    ELSE IF IsInf(x) \/ IsInf(y) THEN Inf
    ELSE LET g == Gcd(x[2], y[2])
         IN Rat(x[1] * (y[2] \div g) + y[1] * (x[2] \div g), (x[2] \div g) * y[2])

\* the product of two finite numbers, common factors removed first
Product(x, y) ==
    LET g1 == Gcd(x[1], y[2])
        g2 == Gcd(y[1], x[2])
    IN Rat((x[1] \div g1) * (y[1] \div g2), (x[2] \div g2) * (y[2] \div g1))

FMul(x, y) ==
    IF IsNaN(x) \/ IsNaN(y) THEN NaN
    ELSE IF IsInf(x) \/ IsInf(y)
         THEN (IF x[1] = 0 \/ y[1] = 0 THEN NaN ELSE Inf)
    ELSE Product(x, y)

FDiv(x, y) ==
    IF IsNaN(x) \/ IsNaN(y) THEN NaN
    ELSE IF IsInf(y) THEN (IF IsInf(x) THEN NaN ELSE Zero)
    ELSE IF IsInf(x) THEN Inf
    ELSE IF y[1] = 0 THEN (IF x[1] = 0 THEN NaN ELSE Inf)
    ELSE Product(x, <<y[2], y[1]>>)

\* x < y on floats; false when either is NaN
FLess(x, y) ==
    /\ ~IsNaN(x) /\ ~IsNaN(y)
    /\ x[1] * y[2] < y[1] * x[2]

RECURSIVE FSumSeq(_)
FSumSeq(s) == IF s = <<>> THEN Zero ELSE FAdd(Head(s), FSumSeq(Tail(s)))

\* the elements of a finite set of days, ascending
RECURSIVE SortedDays(_)
SortedDays(S) ==
    IF S = {} THEN <<>>
    ELSE LET m == CHOOSE x \in S : \A y \in S : x <= y
         IN <<m>> \o SortedDays(S \ {m})

SeqMap(Op(_), s) == [k \in 1..Len(s) |-> Op(s[k])]
Range(s) == {s[k] : k \in DOMAIN s}

\* mean() of pandas: NaN entries are skipped, an empty or all-NaN group is NaN
Mean(ser, D) ==
    LET known == {d \in D : ~IsNaN(ser[d])}
        vals == SeqMap(LAMBDA d : ser[d], SortedDays(known))
    IN IF known = {} THEN NaN
       ELSE FDiv(FSumSeq(vals), Num(Cardinality(known)))

-----------------------------------------------------------------------------
(* Calendar arithmetic *)
MonthOf(d) == (d - 1) \div DaysPerMonth
YearOf(d) == MonthOf(d) \div MonthsPerYear
\* MonthBegin(0).rollback(dt), YearBegin(0).rollback(dt): first day of the period
MonthBeginRollback(d) == MonthOf(d) * DaysPerMonth + 1
YearBeginRollback(d) == YearOf(d) * MonthsPerYear * DaysPerMonth + 1
\* BDay(0).rollback(dt): every day of the universe is a business day
BDayRollback(d) == d

\* InSlice with the end of the slice left out
InSliceEndExclusive(st, ed, d) ==
    /\ d \in Cal
    /\ st = None \/ st[1] <= d
    /\ ed = None \/ d < ed[1]

\* .loc[st:ed] on the calendar: label slice, both ends inclusive, None = open
InSlice(st, ed, d) ==
    /\ d \in Cal
    /\ st = None \/ st[1] <= d
    /\ ed = None \/ d <= ed[1]

-----------------------------------------------------------------------------
(* What the data feeds answer.  A trades at 100 and B at 50 on the first two *)
(* dates of the calendar, at twice that afterwards and at four times that   *)
(* on the last date; C alternates between 250 and 500.                      *)
Step(d) == IF d <= FirstDay + 1 THEN 1 ELSE IF d < LastDay THEN 2 ELSE 4
Price(t, d) ==
    CASE t = "A" -> 100 * Step(d)
      [] t = "B" -> 50 * Step(d)
      [] OTHER -> IF (d - FirstDay) % 2 = 0 THEN 250 ELSE 500
Traded(t, d) == CASE t = "A" -> 3 [] t = "B" -> d [] OTHER -> 2

\* yfinance download(): no row at all for a delisted ticker ("empty"), no row
\* before the first trading day, FirstDay + 2, of a ticker listed late ("late")
FeedRow(kind, t, d) ==
    IF kind = "empty" \/ (kind = "late" /\ d <= FirstDay + 1)
    THEN [Close |-> NaN, Volume |-> NaN]
    ELSE [Close |-> Num(Price(t, d)), Volume |-> Num(Traded(t, d))]

\* info.get('dividendYield'): None for B
InfoDividendYield(t) ==
    CASE t = "A" -> Some(Rat(2, 100)) [] t = "B" -> None [] OTHER -> Some(Rat(4, 100))

\* historical_equity_data/<ticker>.cvs or the Alpha Vantage answer, already cut
\* to start at the panel's first date: rows FirstDay..FallbackEnd(t)
FallbackEnd(t) == IF t = "B" THEN FirstDay ELSE LastDay
Fallback(t) ==
    [d \in FirstDay..FallbackEnd(t) |->
        [close |-> Num(Price(t, d)), volume |-> Num(Traded(t, d) + 1)]]

\* get_shares_full() after groupby(level=0).last(): reporting date -> count
FeedSharesFull(t) ==
    CASE t = "A" -> (FirstDay + 1 :> 10)
      [] t = "B" -> (1 :> 27 @@ FirstDay :> 30)
      [] OTHER -> (FirstDay :> 4 @@ LastDay :> 8 @@ MaxDay :> 6)
\* info.get('sharesOutstanding'), info.get('impliedSharesOutstanding')
InfoSharesOutstanding(t) ==
    CASE t = "A" -> Some(10) [] t = "B" -> Some(20) [] OTHER -> None
InfoImpliedSharesOutstanding(t) == None

\* hist_shares_outs[t]: the caller's override series
HistSharesOuts(t) ==
    CASE t = "A" -> (FirstDay + 1 :> 10 @@ LastDay :> 10)
      [] t = "B" -> (1 :> 20)
      [] OTHER -> (FirstDay + 1 :> 7)

\* the membership windows a ticker is given
Windows ==
    { <<None, None>>, <<None, Some(FirstDay)>>, <<Some(FirstDay + 1), None>>,
      <<Some(FirstDay + 1), Some(FirstDay + 2)>>,
      <<Some(FirstDay + 1), Some(LastDay)>> }

\* (feed, override given) of a ticker
Sources ==
    { <<"ok", FALSE>>, <<"ok", TRUE>>, <<"late", FALSE>>,
      <<"empty", TRUE>>, <<"empty", FALSE>> }

Envs ==
    { [ tickers |-> ord, win |-> [t \in Tickers |-> w[t]],
        feed |-> [t \in Tickers |-> src[t][1]],
        hist |-> {t \in Tickers : src[t][2]}, hist_none |-> hn,
        stock_index |-> si ] :
      ord \in {<<"A", "B", "C">>, <<"C", "B", "A">>},
      w \in [A : {<<None, None>>, <<None, Some(FirstDay)>>},
             B : Windows,
             C : {<<None, None>>, <<Some(LastDay), None>>}],
      src \in [A : Sources, B : Sources \ {<<"ok", TRUE>>, <<"late", FALSE>>},
               C : {<<"ok", FALSE>>}],
      hn \in BOOLEAN, si \in BOOLEAN }

-----------------------------------------------------------------------------
(* Metrics.__init__ *)

\* Series.bfill() / DataFrame.bfill() over the calendar, one column
Bfill(ser) ==
    [d \in DOMAIN ser |->
        LET later == {e \in DOMAIN ser : e >= d /\ ~IsNaN(ser[e])}
        IN IF later = {} THEN NaN
           ELSE ser[CHOOSE e \in later : \A e2 \in later : e <= e2]]

\* Series.ffill()
Ffill(ser) ==
    [d \in DOMAIN ser |->
        LET earlier == {e \in DOMAIN ser : e <= d /\ ~IsNaN(ser[e])}
        IN IF earlier = {} THEN NaN
           ELSE ser[CHOOSE e \in earlier : \A e2 \in earlier : e >= e2]]

\* lines 51-56: download, keep Close and Volume, bfill every column
Downloaded(e) ==
    [t \in Tickers |->
        [Close  |-> Bfill([d \in Cal |-> FeedRow(e.feed[t], t, d).Close]),
         Volume |-> Bfill([d \in Cal |-> FeedRow(e.feed[t], t, d).Volume])]]

\* CurrentComponents taking every ticker of the map for a current one
EveryComponent(e) == e.tickers

\* get_current_components(): tickers whose window end is None, in dict order
CurrentComponents(e) == SelectSeq(e.tickers, LAMBDA t : e.win[t][2] = None)

\* lines 58-62
DividendYields(e) ==
    [t \in Range(CurrentComponents(e)) |->
        IF InfoDividendYield(t) = None THEN Zero ELSE InfoDividendYield(t)[1]]

\* line 65: columns whose Close is missing on every date, in column order
DelistedTickers(data) ==
    SelectSeq(<<"A", "B", "C">>,
              LAMBDA t : \A d \in Cal : IsNaN(data[t].Close[d]))

\* lines 75-78: the fallback rows written into the ticker's columns
WithFallback(data, t) ==
    LET f == Fallback(t)
    IN [data EXCEPT
          ![t] = [Close  |-> [d \in Cal |-> IF d \in DOMAIN f THEN f[d].close
                                            ELSE data[t].Close[d]],
                  Volume |-> [d \in Cal |-> IF d \in DOMAIN f THEN f[d].volume
                                            ELSE data[t].Volume[d]]]]

\* WithReplicatedClose replicating the whole last row, its volume included
WithReplicatedLastRow(data, t, ed) ==
    LET last == FallbackEnd(t)
        fill == {d \in Cal : last + 1 <= d /\ d <= ed}
    IN [data EXCEPT
          ![t] = [Close  |-> [d \in Cal |-> IF d \in fill
                                            THEN Fallback(t)[last].close
                                            ELSE data[t].Close[d]],
                  Volume |-> [d \in Cal |-> IF d \in fill
                                            THEN Fallback(t)[last].volume
                                            ELSE data[t].Volume[d]]]]

\* lines 82-84: last close replicated, volume 0, up to the window end
WithReplicatedClose(data, t, ed) ==
    LET last == FallbackEnd(t)
        fill == {d \in Cal : last + 1 <= d /\ d <= ed}
    IN IF last < ed
       THEN [data EXCEPT
               ![t] = [Close  |-> [d \in Cal |-> IF d \in fill
                                                 THEN Fallback(t)[last].close
                                                 ELSE data[t].Close[d]],
                      Volume |-> [d \in Cal |-> IF d \in fill THEN Zero
                                                 ELSE data[t].Volume[d]]]]
       ELSE data

Download ==
    /\ pc = "download"
    /\ self' = [data |-> Downloaded(env)]
    /\ pc' = "dividends"
    /\ UNCHANGED <<env, err, i, delisted_tickers, result, rp>>

LoadDividendYield ==
    /\ pc = "dividends"
    /\ self' = [data |-> self.data, dividend_yield |-> DividendYields(env)]
    /\ delisted_tickers' = DelistedTickers(self.data)
    /\ pc' = "reconcile"
    /\ i' = 1
    /\ UNCHANGED <<env, err, result, rp>>

\* one pass of the loop of lines 66-84; comparing f.index[-1] with a window
\* end of None raises TypeError after the rows were written
ReconcileDelisted ==
    /\ pc = "reconcile"
    /\ i <= Len(delisted_tickers)
    /\ LET t == delisted_tickers[i]
           ed == env.win[t][2]
           written == WithFallback(self.data, t)
       IN IF ed = None
          THEN /\ self' = [self EXCEPT !.data = written]
               /\ pc' = "raised"
               /\ err' = "TypeError"
               /\ i' = i
          ELSE /\ self' = [self EXCEPT
                             !.data = WithReplicatedClose(written, t, ed[1])]
               /\ i' = i + 1
               /\ UNCHANGED <<pc, err>>
    /\ UNCHANGED <<env, delisted_tickers, result, rp>>

\* line 86
ReconcileDone ==
    /\ pc = "reconcile"
    /\ i > Len(delisted_tickers)
    /\ self' = [data |-> self.data, dividend_yield |-> self.dividend_yield,
                shares_outstanding |-> [t \in {} |-> 0]]
    /\ pc' = "shares"
    /\ i' = 1
    /\ UNCHANGED <<env, err, delisted_tickers, result, rp>>

\* a feed or override answer (date -> count) as a Series of floats
AsSeries(f) == [d \in DOMAIN f |-> Num(f[d])]
LastDate(ser) == CHOOSE d \in DOMAIN ser : \A e \in DOMAIN ser : e <= d

\* Corrected with the threshold of line 109 included in the correction
CorrectedFromThreshold(f, so, so2) ==
    LET last == f[LastDate(f)]
    IN IF so # None /\ so[1] * 12 <= last * 10
       THEN LET by == IF so2 = None THEN last ELSE so2[1]
            IN [d \in DOMAIN f |-> (f[d] * so[1]) \div by]
       ELSE f

\* lines 108-117: the multi-class correction, then astype('int64')
Corrected(f, so, so2) ==
    LET last == f[LastDate(f)]
    IN IF so # None /\ so[1] * 12 < last * 10
       THEN LET by == IF so2 = None THEN last ELSE so2[1]
            IN [d \in DOMAIN f |-> (f[d] * so[1]) \div by]
       ELSE f

\* lines 121-122: the calendar dates the series lacks are added as NaN
WithMissingDates(ser) ==
    [d \in DOMAIN ser \cup Cal |-> IF d \in DOMAIN ser THEN ser[d] ELSE NaN]

\* FfillBfill without the backward fill
FfillOnly(ser) == Ffill(ser)

\* line 123
FfillBfill(ser) == Bfill(Ffill(ser))

\* lines 121-126
GapFilled(ser) ==
    LET filled == FfillBfill(WithMissingDates(ser))
    IN [d \in Cal |-> filled[d]]

\* SharesSource without the check of lines 91-92
SharesSourceUnchecked(e, delisted, t) ==
    IF ~e.hist_none /\ t \in e.hist THEN "hist" ELSE "feed"

\* lines 90-101: where the share counts of a ticker come from
SharesSource(e, delisted, t) ==
    IF t \in Range(delisted)
    THEN (IF e.hist_none \/ t \notin e.hist THEN "raise" ELSE "hist")
    ELSE IF ~e.hist_none /\ t \in e.hist THEN "hist"
    ELSE "feed"

\* lines 93-117: the series of the override, or that of the feed corrected
SharesSeries(src, hist, feed, so, so2) ==
    AsSeries(IF src = "hist" THEN hist ELSE Corrected(feed, so, so2))

\* one pass of the loop of lines 87-126
ResolveSharesOutstanding ==
    /\ pc = "shares"
    /\ i <= Len(env.tickers)
    /\ LET t == env.tickers[i]
           src == SharesSource(env, delisted_tickers, t)
           ser == SharesSeries(src, HistSharesOuts(t), FeedSharesFull(t),
                               InfoSharesOutstanding(t),
                               InfoImpliedSharesOutstanding(t))
       IN IF src = "raise"
          THEN /\ pc' = "raised"
               /\ err' = "ValueError"
               /\ UNCHANGED <<self, i>>
          ELSE /\ self' = [self EXCEPT
                             !.shares_outstanding = (t :> GapFilled(ser)) @@ @]
               /\ i' = i + 1
               /\ UNCHANGED <<pc, err>>
    /\ UNCHANGED <<env, delisted_tickers, result, rp>>

\* lines 130-132
SharesDone ==
    /\ pc = "shares"
    /\ i > Len(env.tickers)
    /\ self' = [data |-> self.data, dividend_yield |-> self.dividend_yield,
                shares_outstanding |-> self.shares_outstanding,
                capitalization |->
                    [Capitalization |-> [d \in Cal |-> Zero],
                     Turnover |-> [d \in Cal |-> Zero],
                     columns |-> << >>,
                     ticker |-> [t \in {} |-> 0]],
                forward_dividend_yield |-> Zero]
    /\ pc' = "capitalization"
    /\ i' = 1
    /\ UNCHANGED <<env, err, delisted_tickers, result, rp>>

\* lines 139-146 for one ticker: the two aggregates grow inside the window;
\* the ticker's own column is created by the assignment, so the rows the
\* assignment does not name hold NaN
CapitalizationWith(cap, data, shares, t, st, ed) ==
    LET tv == [d \in Cal |-> FMul(data[t].Close[d], data[t].Volume[d])]
        cp == [d \in Cal |-> FMul(data[t].Close[d], shares[t][d])]
    IN [Capitalization |->
            [d \in Cal |-> IF InSlice(st, ed, d)
                           THEN FAdd(cap.Capitalization[d], cp[d])
                           ELSE cap.Capitalization[d]],
        Turnover |->
            [d \in Cal |-> IF InSlice(st, ed, d)
                           THEN FAdd(cap.Turnover[d], tv[d])
                           ELSE cap.Turnover[d]],
        columns |-> Append(cap.columns, t),
        ticker |-> (t :> [d \in Cal |-> IF InSlice(st, ed, d) THEN cp[d] ELSE NaN])
                   @@ cap.ticker]

\* lines 149-151
DividendWith(fdy, e, data, shares, dy, t) ==
    IF t \in Range(CurrentComponents(e))
    THEN FAdd(fdy, FMul(FMul(data[t].Close[LastDay], shares[t][LastDay]), dy[t]))
    ELSE fdy

\* one pass of the loop of lines 133-151
ComputeCapitalization ==
    /\ pc = "capitalization"
    /\ i <= Len(env.tickers)
    /\ LET t == env.tickers[i]
       IN self' = [self EXCEPT
                     !.capitalization =
                         CapitalizationWith(@, self.data, self.shares_outstanding,
                                            t, env.win[t][1], env.win[t][2]),
                     !.forward_dividend_yield =
                         DividendWith(@, env, self.data, self.shares_outstanding,
                                      self.dividend_yield, t)]
    /\ i' = i + 1
    /\ UNCHANGED <<env, pc, err, delisted_tickers, result, rp>>

\* lines 153-159: stock_index_data is assigned only when an index was given
StockIndexData == [d \in Cal |-> Num(1000 + d)]

Finish ==
    /\ pc = "capitalization"
    /\ i > Len(env.tickers)
    /\ LET fdy == FDiv(self.forward_dividend_yield,
                       self.capitalization.Capitalization[LastDay])
           base == [self EXCEPT !.forward_dividend_yield = fdy]
       IN self' = IF env.stock_index
                  THEN [a \in DOMAIN base \cup {"stock_index_data"} |->
                          IF a = "stock_index_data" THEN StockIndexData ELSE base[a]]
                  ELSE base
    /\ pc' = "constructed"
    /\ UNCHANGED <<env, err, i, delisted_tickers, result, rp>>

-----------------------------------------------------------------------------
(* Query methods *)

Frequencies == {"D", "M", "A"}
\* the period of a date under resample(frequency), named by its first day
PeriodOf(f, d) ==
    CASE f = "D" -> d
      [] f = "M" -> MonthBeginRollback(d)
      [] OTHER -> YearBeginRollback(d)

\* ser.resample(frequency).mean(): one bin per period of the calendar
Resampled(ser, f) ==
    [l \in {PeriodOf(f, d) : d \in Cal} |->
        Mean(ser, {d \in Cal : PeriodOf(f, d) = l})]

\* Series.dropna()
DropNa(ser) ==
    LET kept == {l \in DOMAIN ser : ~IsNaN(ser[l])}
    IN [l \in kept |-> ser[l]]

\* the position of the row nlargest takes next: the largest value, the first
\* of equal ones (keep='first'; the sort is stable)
FirstLargest(cols, val) ==
    CHOOSE k \in DOMAIN cols :
        /\ \A j \in DOMAIN cols : ~FLess(val[cols[k]], val[cols[j]])
        /\ \A j \in 1..(k - 1) : FLess(val[cols[j]], val[cols[k]])

RECURSIVE SortedDescending(_, _)
SortedDescending(cols, val) ==
    IF cols = << >> THEN << >>
    ELSE LET k == FirstLargest(cols, val)
         IN <<cols[k]>> \o
            SortedDescending(SubSeq(cols, 1, k - 1) \o SubSeq(cols, k + 1, Len(cols)),
                             val)

\* Series.nlargest(n) of pandas (core/methods/selectn.py): nothing for n <= 0;
\* the rows that hold a value in descending order, then the rows that hold
\* NaN in their original order, cut to n rows
NLargest(n, cols, val) ==
    IF n <= 0 THEN << >>
    ELSE LET dropped == SelectSeq(cols, LAMBDA t : ~IsNaN(val[t]))
             nan_index == SelectSeq(cols, LAMBDA t : IsNaN(val[t]))
             all == SortedDescending(dropped, val) \o nan_index
         IN SubSeq(all, 1, IF n < Len(all) THEN n ELSE Len(all))

\* lines 195-197, 214-216, 233-235: the table of a top-n query
TopNTable(n, cols, val, total) ==
    LET topn == NLargest(n, cols, val)
    IN [k \in 1..Len(topn) |->
          [ticker |-> topn[k], Capitalization |-> val[topn[k]],
           MktShare |-> FDiv(val[topn[k]], total)]]

Raised(call, e) == [call |-> call, raised |-> e, value |-> << >>]
Returned(call, v) == [call |-> call, raised |-> "", value |-> v]

DateOrLast(dt) == IF dt = None THEN LastDay ELSE dt[1]
\* lines 194, 212, 231
Anchor(rolled) == IF rolled <= LastDay THEN rolled ELSE LastDay

\* lines 192-197; .loc[dt] of a date that is no row raises KeyError
TopNForDay(slf, n, dt) ==
    LET d == Anchor(BDayRollback(DateOrLast(dt)))
        cap == slf.capitalization
    IN IF d \notin Cal THEN Raised(<<"top_n_day", n, dt>>, "KeyError")
       ELSE Returned(<<"top_n_day", n, dt>>,
                     TopNTable(n, cap.columns, [t \in Tickers |-> cap.ticker[t][d]],
                               cap.Capitalization[d]))

\* lines 210-216 and 229-235: resample('MS') / resample('AS'), then as for a day
TopNForPeriod(slf, f, name, n, dt) ==
    LET rolled == IF f = "M" THEN MonthBeginRollback(DateOrLast(dt))
                  ELSE YearBeginRollback(DateOrLast(dt))
        d == Anchor(rolled)
        cap == slf.capitalization
        total == Resampled(cap.Capitalization, f)
    IN IF d \notin DOMAIN total THEN Raised(<<name, n, dt>>, "KeyError")
       ELSE Returned(<<name, n, dt>>,
                     TopNTable(n, cap.columns,
                               [t \in Tickers |-> Resampled(cap.ticker[t], f)[d]],
                               total[d]))

TopNForMonth(slf, n, dt) == TopNForPeriod(slf, "M", "top_n_month", n, dt)
TopNForYear(slf, n, dt) == TopNForPeriod(slf, "A", "top_n_year", n, dt)

\* acc += ser.loc[st:ed]: the operands are aligned on the union of their
\* indexes, a date only one of them has becomes NaN
AddAligned(acc, ser, st, ed) ==
    [d \in Cal |-> IF InSlice(st, ed, d) THEN FAdd(acc[d], ser[d]) ELSE NaN]

RECURSIVE SumOverTickers(_, _, _)
SumOverTickers(e, ser, tickers) ==
    IF tickers = << >> THEN [d \in Cal |-> Zero]
    ELSE LET t == tickers[Len(tickers)]
         IN AddAligned(SumOverTickers(e, ser, SubSeq(tickers, 1, Len(tickers) - 1)),
                       ser[t], e.win[t][1], e.win[t][2])

\* lines 237-246
DailyTradingValueDs(slf, e, tickers) ==
    IF tickers = None THEN slf.capitalization.Turnover
    ELSE SumOverTickers(e,
            [t \in Tickers |->
                [d \in Cal |-> FMul(slf.data[t].Close[d], slf.data[t].Volume[d])]],
            tickers[1])

\* lines 248-259
DailyTradingValue(slf, e, f, tickers) ==
    DropNa(Resampled(DailyTradingValueDs(slf, e, tickers), f))

Times(ser, k) == [l \in DOMAIN ser |-> FMul(ser[l], Num(k))]

\* lines 261-262
AnnualTradingValue(slf, e, f, tickers) ==
    Times(DailyTradingValue(slf, e, f, tickers), TRADING_DAYS_IN_YEAR)

\* lines 275-286
DailyTurnover(slf, e, f, tickers) ==
    LET value == DailyTradingValueDs(slf, e, tickers)
        capitalization ==
            IF tickers = None THEN slf.capitalization.Capitalization
            ELSE SumOverTickers(e,
                    [t \in Tickers |->
                        [d \in Cal |-> FMul(slf.data[t].Close[d],
                                            slf.shares_outstanding[t][d])]],
                    tickers[1])
    IN DropNa(Resampled([d \in Cal |-> FDiv(value[d], capitalization[d])], f))

\* SharesPanelMemory without the copy() of line 239
SharesPanelMemoryWithoutCopy(tickers) == tickers = None

\* whether the Series get_daily_trading_value_ds returns shares its memory
\* with the Turnover column of the capitalization panel: line 239 copies the
\* column, line 241 builds a new Series
SharesPanelMemory(tickers) == FALSE

\* the object after get_daily_turnover: lines 277 and 284 divide the Series
\* of line 275 in place, which writes through to the panel if the Series
\* shares its memory
AfterDailyTurnover(slf, e, tickers) ==
    IF SharesPanelMemory(tickers)
    THEN LET value == DailyTradingValueDs(slf, e, tickers)
         IN [slf EXCEPT
               !.capitalization.Turnover =
                   [d \in Cal |-> FDiv(value[d], slf.capitalization.Capitalization[d])]]
    ELSE slf

\* AnnualTurnover annualizing the trading value instead of the turnover ratio
AnnualTurnoverOfValue(slf, e, f, tickers) ==
    Times(DailyTradingValue(slf, e, f, tickers), TRADING_DAYS_IN_YEAR)

\* line 299
AnnualTurnover(slf, e, f, tickers) ==
    Times(DailyTurnover(slf, e, f, tickers), TRADING_DAYS_IN_YEAR)

\* lines 172-179: with a ticker list the return statement reads the attribute
\* 'ret' of a Series, which raises AttributeError
Capitalization(slf, e, f, tickers) ==
    IF tickers = None
    THEN Returned(<<"capitalization", f, tickers>>,
                  DropNa(Resampled(slf.capitalization.Capitalization, f)))
    ELSE Raised(<<"capitalization", f, tickers>>, "AttributeError")

\* lines 314-317: reading an attribute __init__ never assigned raises
\* AttributeError; the volatility itself is not computed here, the result
\* names what it is computed from
AnnualVolatility(slf, f) ==
    IF "stock_index_data" \notin DOMAIN slf
    THEN Raised(<<"annual_volatility", f>>, "AttributeError")
    ELSE Returned(<<"annual_volatility", f>>,
                  [ewm_std_of_pct_change |-> slf.stock_index_data,
                   annualized_by_sqrt_of |-> TRADING_DAYS_IN_YEAR,
                   frequency |-> f])

\* the arguments the queries are called with
QueryDates == {None} \cup {Some(d) : d \in {1, FirstDay, LastDay, LastDay + 1}}
TickerLists == {None, Some(<<"A">>), Some(<<"A", "B">>), Some(<<"C", "B", "A">>)}

NoResult == [call |-> << >>, raised |-> "", value |-> << >>]
\* the object was returned to the caller, who holds no unread result
Ready == pc = "constructed" /\ result = NoResult

GetTopNForDay ==
    /\ Ready
    /\ \E n \in 0..MaxN, dt \in QueryDates : result' = TopNForDay(self, n, dt)
    /\ UNCHANGED <<env, self, pc, err, i, delisted_tickers, rp>>

GetTopNForMonth ==
    /\ Ready
    /\ \E n \in 0..MaxN, dt \in QueryDates : result' = TopNForMonth(self, n, dt)
    /\ UNCHANGED <<env, self, pc, err, i, delisted_tickers, rp>>

GetTopNForYear ==
    /\ Ready
    /\ \E n \in 0..MaxN, dt \in QueryDates : result' = TopNForYear(self, n, dt)
    /\ UNCHANGED <<env, self, pc, err, i, delisted_tickers, rp>>

GetCapitalization ==
    /\ Ready
    /\ \E f \in Frequencies, tl \in TickerLists :
          result' = Capitalization(self, env, f, tl)
    /\ UNCHANGED <<env, self, pc, err, i, delisted_tickers, rp>>

GetDailyTradingValue ==
    /\ Ready
    /\ \E f \in Frequencies, tl \in TickerLists :
          result' = Returned(<<"daily_trading_value", f, tl>>,
                             DailyTradingValue(self, env, f, tl))
    /\ UNCHANGED <<env, self, pc, err, i, delisted_tickers, rp>>

GetAnnualTradingValue ==
    /\ Ready
    /\ \E f \in Frequencies, tl \in TickerLists :
          result' = Returned(<<"annual_trading_value", f, tl>>,
                             AnnualTradingValue(self, env, f, tl))
    /\ UNCHANGED <<env, self, pc, err, i, delisted_tickers, rp>>

GetDailyTurnover ==
    /\ Ready
    /\ \E f \in Frequencies, tl \in TickerLists :
          /\ result' = Returned(<<"daily_turnover", f, tl>>,
                             DailyTurnover(self, env, f, tl))
          /\ self' = AfterDailyTurnover(self, env, tl)
    /\ UNCHANGED <<env, pc, err, i, delisted_tickers, rp>>

GetAnnualTurnover ==
    /\ Ready
    /\ \E f \in Frequencies, tl \in TickerLists :
          /\ result' = Returned(<<"annual_turnover", f, tl>>,
                             AnnualTurnover(self, env, f, tl))
          /\ self' = AfterDailyTurnover(self, env, tl)
    /\ UNCHANGED <<env, pc, err, i, delisted_tickers, rp>>

GetAnnualVolatility ==
    /\ Ready
    /\ \E f \in Frequencies : result' = AnnualVolatility(self, f)
    /\ UNCHANGED <<env, self, pc, err, i, delisted_tickers, rp>>

GetCurrentComponents ==
    /\ Ready
    /\ result' = Returned(<<"current_components">>, CurrentComponents(env))
    /\ UNCHANGED <<env, self, pc, err, i, delisted_tickers, rp>>

\* the caller reads what the query returned (or catches what it raised)
TakeResult ==
    /\ pc = "constructed"
    /\ result # NoResult
    /\ result' = NoResult
    /\ UNCHANGED <<env, self, pc, err, i, delisted_tickers, rp>>

Query ==
    \/ GetTopNForDay
    \/ GetTopNForMonth
    \/ GetTopNForYear
    \/ GetCapitalization
    \/ GetDailyTradingValue
    \/ GetAnnualTradingValue
    \/ GetDailyTurnover
    \/ GetAnnualTurnover
    \/ GetAnnualVolatility
    \/ GetCurrentComponents

-----------------------------------------------------------------------------
(* The body of the loop of lines 87-126 for one ticker, on any series the   *)
(* override map or the feed may hold: up to MaxReports reporting dates      *)
(* anywhere in the universe of days.                                        *)
MaxReports == 2
ShareCounts == {10, 12, 30}

ReportSeries ==
    UNION { [D -> ShareCounts] :
            D \in {S \in SUBSET Days : S # {} /\ Cardinality(S) <= MaxReports} }

SharesInputs ==
    { [source |-> "hist", series |-> f, so |-> None, so2 |-> None] :
        f \in ReportSeries }
    \cup
    { [source |-> "feed", series |-> f, so |-> so, so2 |-> so2] :
        f \in ReportSeries, so \in {None, Some(10), Some(20)},
        so2 \in {None, Some(25)} }

InitShares ==
    /\ env \in SharesInputs
    /\ self = [a \in {} |-> 0]
    /\ pc = "shares"
    /\ err = ""
    /\ i = 1
    /\ delisted_tickers = << >>
    /\ result = NoResult
    /\ rp = [pc |-> "idle"]

ResolveOne ==
    /\ pc = "shares"
    /\ LET shares_outst == SharesSeries(env.source, env.series, env.series,
                                        env.so, env.so2)
       IN self' = [shares_outst |-> shares_outst,
                   shares_outstanding |-> GapFilled(shares_outst)]
    /\ pc' = "resolved"
    /\ UNCHANGED <<env, err, i, delisted_tickers, result, rp>>

NextShares == ResolveOne

SpecShares == InitShares /\ [][NextShares]_vars

-----------------------------------------------------------------------------
(* USStockMarketMetrics.get_sp500_historical_components                     *)

\* the change log, oldest event first as in the file; event k is dated
\* FirstDay + k - 1.  A column of a row is a list of tickers or null (None).
EventDay(k) == FirstDay + k - 1
AddedCells == {None, Some(<<"X">>), Some(<<"Y">>)}
RemovedCells == {None, Some(<<"X">>), Some(<<"Y">>), Some(<<"Z">>)}
ChangeLogs ==
    UNION { [1..n -> [added : AddedCells, removed : RemovedCells]] : n \in 0..MaxEvents }

\* lines 383-385: the 'added' tickers of a row; a ticker the map lacks raises
\* KeyError
RECURSIVE WithAdded(_, _, _)
WithAdded(ret, ts, added) ==
    IF added = << >> THEN [ok |-> TRUE, ret |-> ret]
    ELSE IF Head(added) \notin DOMAIN ret THEN [ok |-> FALSE, ret |-> ret]
    ELSE WithAdded([ret EXCEPT ![Head(added)] = <<Some(ts), @[2]>>], ts, Tail(added))

\* WithRemoved ending the window on the day of the event itself
WithRemovedOnEventDay(ret, start, ts, removed) ==
    [x \in DOMAIN ret \cup Range(removed) |->
        IF x \in Range(removed) THEN <<Some(start), Some(ts)>> ELSE ret[x]]

\* lines 387-389: the 'removed' tickers of a row
RECURSIVE WithRemoved(_, _, _, _)
WithRemoved(ret, start, ts, removed) ==
    IF removed = << >> THEN ret
    ELSE WithRemoved((Head(removed) :> <<Some(start), Some(ts - 1)>>) @@ ret,
                     start, ts, Tail(removed))

\* AddedTwice comparing the lengths the other way round
AddedTwiceMiscounted(all_components, ret) ==
    Len(all_components) < Cardinality(DOMAIN ret)

\* line 400
AddedTwice(all_components, ret) ==
    Len(all_components) > Cardinality(DOMAIN ret)

InitReplay ==
    /\ rp \in { [pc |-> "begin", start |-> s, components |-> c, log |-> l] :
                s \in {FirstDay, FirstDay + 1},
                c \in {<<"X">>, <<"X", "Y">>},
                l \in ChangeLogs }
    /\ env = [a \in {} |-> 0]
    /\ self = [a \in {} |-> 0]
    /\ pc = "idle"
    /\ err = ""
    /\ i = 0
    /\ delisted_tickers = << >>
    /\ result = NoResult

\* lines 373-374
ReplayBegin ==
    /\ rp.pc = "begin"
    /\ rp' = [pc |-> "loop", start |-> rp.start, components |-> rp.components,
              log |-> rp.log, k |-> Len(rp.log),
              all_components |-> rp.components,
              ret |-> [t \in Range(rp.components) |-> <<Some(rp.start), None>>],
              err |-> ""]
    /\ UNCHANGED <<env, self, pc, err, i, delisted_tickers, result>>

\* one pass of the loop of lines 379-389, newest row first
ReplayEvent ==
    /\ rp.pc = "loop"
    /\ rp.k >= 1
    /\ EventDay(rp.k) >= rp.start
    /\ LET row == rp.log[rp.k]
           ts == EventDay(rp.k)
           added == WithAdded(rp.ret, ts,
                              IF row.added = None THEN << >> ELSE row.added[1])
       IN IF ~added.ok
          THEN rp' = [rp EXCEPT !.pc = "raised", !.err = "KeyError", !.ret = added.ret]
          ELSE IF row.removed = None
          THEN rp' = [rp EXCEPT !.pc = "raised", !.err = "AttributeError",
                                !.ret = added.ret]
          ELSE rp' = [rp EXCEPT
                        !.ret = WithRemoved(added.ret, rp.start, ts, row.removed[1]),
                        !.all_components = @ \o row.removed[1],
                        !.k = rp.k - 1]
    /\ UNCHANGED <<env, self, pc, err, i, delisted_tickers, result>>

\* lines 381-382 and 400-403: the loop ends at the first row older than
\* start or after the last one
ReplayEnd ==
    /\ rp.pc = "loop"
    /\ rp.k = 0 \/ EventDay(rp.k) < rp.start
    /\ rp' = IF AddedTwice(rp.all_components, rp.ret)
             THEN [rp EXCEPT !.pc = "raised", !.err = "ValueError"]
             ELSE [rp EXCEPT !.pc = "returned"]
    /\ UNCHANGED <<env, self, pc, err, i, delisted_tickers, result>>

NextReplay == ReplayBegin \/ ReplayEvent \/ ReplayEnd

SpecReplay == InitReplay /\ [][NextReplay]_vars

-----------------------------------------------------------------------------
Init ==
    /\ env \in {e \in Envs : e.hist_none => e.hist = {}}
    /\ self = [a \in {} |-> 0]
    /\ pc = "download"
    /\ err = ""
    /\ i = 0
    /\ delisted_tickers = << >>
    /\ result = NoResult
    /\ rp = [pc |-> "idle"]

Construct ==
    \/ Download
    \/ LoadDividendYield
    \/ ReconcileDelisted
    \/ ReconcileDone
    \/ ResolveSharesOutstanding
    \/ SharesDone
    \/ ComputeCapitalization
    \/ Finish

Next == Construct \/ Query \/ TakeResult

Spec == Init /\ [][Next]_vars

-----------------------------------------------------------------------------
(* Properties of the constructed object and of its queries *)

Constructed == pc = "constructed"
WindowContains(t, d) ==
    LET st == env.win[t][1]
        ed == env.win[t][2]
    IN (st = None \/ st[1] <= d) /\ (ed = None \/ d <= ed[1])

RECURSIVE SumOver(_, _)
SumOver(S, val) ==
    IF S = {} THEN Zero
    ELSE LET t == CHOOSE x \in S : TRUE
         IN FAdd(val[t], SumOver(S \ {t}, val))

CloseTimesShares(d) ==
    [t \in Tickers |-> FMul(self.data[t].Close[d], self.shares_outstanding[t][d])]

\* C1: after construction the aggregate capitalization of every calendar date
\* is the sum of close x shares outstanding over exactly the tickers whose
\* membership window contains the date.
C1_CapitalizationIsSumOverActive ==
    Constructed =>
        \A d \in Cal :
            self.capitalization.Capitalization[d]
                = SumOver({t \in Tickers : WindowContains(t, d)}, CloseTimesShares(d))

\* A = (100, 10 shares, active), B = (50, 20 shares, window ending on the
\* first date), C not yet a member: 2000 on the first date, 1000 on the next
C1_Witness ==
    /\ Constructed
    /\ env.win["A"] = <<None, None>>
    /\ env.win["B"] = <<None, Some(FirstDay)>>
    /\ ~WindowContains("C", FirstDay + 1)
    /\ self.capitalization.Capitalization[FirstDay] = Num(2000)
    /\ self.capitalization.Capitalization[FirstDay + 1] = Num(1000)

\* C2: the capitalization column of a ticker holds exactly zero on every date
\* after its window end and on every date before its window start.
C2_ZeroOutsideWindow ==
    Constructed =>
        \A t \in Tickers : \A d \in Cal :
            ~WindowContains(t, d) => self.capitalization.ticker[t][d] = Zero

TopNCalls == {"top_n_day", "top_n_month", "top_n_year"}
IsTopN == result.call # << >> /\ result.call[1] \in TopNCalls /\ result.raised = ""

\* the dates of the calendar a top-n call that returned was answered from
AnchorDays ==
    LET dt == DateOrLast(result.call[3])
    IN CASE result.call[1] = "top_n_day" -> {Anchor(BDayRollback(dt))}
         [] result.call[1] = "top_n_month" ->
                {d \in Cal : MonthOf(d) = MonthOf(Anchor(MonthBeginRollback(dt)))}
         [] OTHER -> {d \in Cal : YearOf(d) = YearOf(Anchor(YearBeginRollback(dt)))}

ExistedAtAnchor == {t \in Tickers : \E d \in AnchorDays : WindowContains(t, d)}
Position(t) == CHOOSE k \in DOMAIN env.tickers : env.tickers[k] = t
Min(a, b) == IF a < b THEN a ELSE b

\* C3: a top-n query returns exactly n rows, or all constituents when fewer
\* than n tickers existed at the anchor, by capitalization descending, equal
\* capitalizations in the order of the membership map.
C3_TopNRows ==
    IsTopN =>
        LET rows == result.value
        IN /\ Len(rows) = Min(result.call[2], Cardinality(ExistedAtAnchor))
           /\ \A k \in 1..(Len(rows) - 1) :
                \/ FLess(rows[k + 1].Capitalization, rows[k].Capitalization)
                \/ /\ rows[k + 1].Capitalization = rows[k].Capitalization
                   /\ Position(rows[k].ticker) < Position(rows[k + 1].ticker)

\* the total the market shares of a top-n result are taken of
AnchorTotal == Mean(self.capitalization.Capitalization, AnchorDays)

\* C4: in every top-n result each row's market share is its capitalization
\* divided by the total of the anchor period, and the market shares that the
\* rows hold sum to at most 100%.
C4_MarketShares ==
    IsTopN =>
        LET rows == result.value
            held == SelectSeq(rows, LAMBDA r : ~IsNaN(r.MktShare))
            sum == FSumSeq([k \in 1..Len(held) |-> held[k].MktShare])
        IN /\ \A k \in 1..Len(rows) :
                rows[k].MktShare = FDiv(rows[k].Capitalization, AnchorTotal)
           /\ ~FLess(Num(1), sum)

\* C5: annual_turnover(f, t) has the periods of daily_turnover(f, t) and at
\* each of them 252 times its value.
C5_AnnualTurnoverIs252TimesDaily ==
    (result.call # << >> /\ result.call[1] = "annual_turnover") =>
        LET daily == DailyTurnover(self, env, result.call[2], result.call[3])
        IN /\ result.raised = ""
           /\ DOMAIN result.value = DOMAIN daily
           /\ \A l \in DOMAIN daily : result.value[l] = FMul(daily[l], Num(252))

C5_Witness ==
    /\ result.call # << >>
    /\ result.call[1] = "annual_turnover"
    /\ result.call[2] = "M"
    /\ result.call[3] = Some(<<"A", "B">>)
    /\ \E l \in DOMAIN result.value : FLess(Zero, result.value[l])

\* a ticker the primary feed has no close price for, without an override
DelistedWithoutOverride ==
    {t \in Tickers : env.feed[t] = "empty" /\ (env.hist_none \/ t \notin env.hist)}

\* C6: when a delisted ticker has no shares-outstanding override (or no
\* override map was given) construction never gets past the resolution of
\* the shares outstanding and no object is returned, wherever the ticker
\* stands in the membership map; construction ends by raising.
C6_NoObjectWithoutOverride ==
    DelistedWithoutOverride # {} =>
        /\ pc \notin {"capitalization", "constructed"}
        /\ result = NoResult
        /\ pc = "shares" =>
              \A k \in 1..(i - 1) : env.tickers[k] \notin DelistedWithoutOverride

\* the error is raised for a ticker that is not the first of the map, after
\* the share counts of the tickers before it were resolved
C6_Witness ==
    /\ pc = "raised"
    /\ err = "ValueError"
    /\ DelistedWithoutOverride # {}
    /\ env.tickers[1] \notin DelistedWithoutOverride
    /\ DOMAIN self.shares_outstanding # {}

\* C8: constructed without an index ticker, annual_volatility returns the
\* 'unavailable' sentinel and does not raise.
C8_VolatilityUnavailable ==
    (result.call # << >> /\ result.call[1] = "annual_volatility" /\ ~env.stock_index)
        => result.raised = ""

\* C9: a top-n query for a date outside the panel calendar returns an empty
\* or absent result and does not raise.
C9_OutOfRangeQueryDoesNotRaise ==
    (/\ result.call # << >>
     /\ result.call[1] \in TopNCalls
     /\ result.call[3] # None
     /\ result.call[3][1] \notin Cal)
        => result.raised = ""

\* what the query named by a call record returns or raises on an object
Answer(slf, e, call) ==
    CASE call[1] = "capitalization" -> Capitalization(slf, e, call[2], call[3])
      [] call[1] = "top_n_day" -> TopNForDay(slf, call[2], call[3])
      [] call[1] = "top_n_month" -> TopNForMonth(slf, call[2], call[3])
      [] call[1] = "top_n_year" -> TopNForYear(slf, call[2], call[3])
      [] call[1] = "daily_trading_value" ->
            Returned(call, DailyTradingValue(slf, e, call[2], call[3]))
      [] call[1] = "annual_trading_value" ->
            Returned(call, AnnualTradingValue(slf, e, call[2], call[3]))
      [] call[1] = "daily_turnover" ->
            Returned(call, DailyTurnover(slf, e, call[2], call[3]))
      [] call[1] = "annual_turnover" ->
            Returned(call, AnnualTurnover(slf, e, call[2], call[3]))
      [] call[1] = "annual_volatility" -> AnnualVolatility(slf, call[2])
      [] OTHER -> Returned(call, CurrentComponents(e))

\* C12: once the object is constructed no step (a query call of any kind,
\* with or without a ticker subset, or the caller reading its result)
\* changes the price/volume panel, the membership map, the shares
\* outstanding or the capitalization panel, and what a call returned is what
\* the same call returns on the object as it is afterwards.
C12_QueriesDoNotMutate ==
    [][Constructed =>
          /\ self' = self
          /\ env' = env
          /\ result' # NoResult => result' = Answer(self', env', result'.call)]_vars

\* daily_turnover for the whole market was answered: its in-place division
\* took place and the panel still holds the trading value, not the ratio
C12_Witness ==
    /\ Constructed
    /\ result.call = <<"daily_turnover", "D", None>>
    /\ result.raised = ""
    /\ LastDay \in DOMAIN result.value
    /\ FLess(Zero, result.value[LastDay])
    /\ self.capitalization.Turnover[LastDay]
          = FMul(result.value[LastDay], self.capitalization.Capitalization[LastDay])
    /\ self.capitalization.Turnover[LastDay] # result.value[LastDay]

-----------------------------------------------------------------------------
(* Properties of the resolution of the shares outstanding (SpecShares) *)

\* the counts the source series reports: the override as given, the feed
\* after the multi-class correction
KnownShares ==
    IF env.source = "hist" THEN env.series
    ELSE Corrected(env.series, env.so, env.so2)

\* C10: after resolution there is a share count for every calendar date and
\* for no other date, none of them missing: the last count reported on or
\* before the date, or the first reported count for the dates before it.
C10_SharesFilledOverCalendar ==
    pc = "resolved" =>
        LET sh == self.shares_outstanding
            known == KnownShares
        IN /\ DOMAIN sh = Cal
           /\ \A d \in Cal :
                LET before == {r \in DOMAIN known : r <= d}
                IN /\ ~IsNaN(sh[d])
                   /\ sh[d] = Num(known[IF before # {}
                                        THEN CHOOSE r \in before : \A q \in before : q <= r
                                        ELSE CHOOSE r \in DOMAIN known :
                                                \A q \in DOMAIN known : r <= q])

\* a series whose only reports are one inside the calendar after its first
\* date and one after its last date
C10_Witness ==
    /\ pc = "resolved"
    /\ DOMAIN env.series = {FirstDay + 1, LastDay + 1}
    /\ env.series[FirstDay + 1] # env.series[LastDay + 1]
    /\ self.shares_outstanding[FirstDay] = Num(env.series[FirstDay + 1])
    /\ self.shares_outstanding[LastDay] = Num(env.series[FirstDay + 1])

\* the calendar dates the primary feed has a close price of the ticker for
Observed(t) == {d \in Cal : ~IsNaN(FeedRow(env.feed[t], t, d).Close)}

\* C14: in the constructed panel every calendar date before the first date
\* the primary feed has an observation of a ticker for holds the ticker's
\* first available close price and a volume of zero.
C14_FirstCloseAndZeroVolumeBeforeEntry ==
    Constructed =>
        \A t \in Tickers :
            Observed(t) # {} =>
                LET first == CHOOSE d \in Observed(t) : \A o \in Observed(t) : d <= o
                IN \A d \in Cal :
                      d < first =>
                          /\ self.data[t].Close[d] = FeedRow(env.feed[t], t, first).Close
                          /\ self.data[t].Volume[d] = Zero

\* the delisted tickers whose pass of the loop of lines 66-84 is complete
ReconciledTickers ==
    IF pc = "reconcile" \/ (pc = "raised" /\ err = "TypeError")
    THEN {delisted_tickers[k] : k \in 1..(i - 1)}
    ELSE IF pc \in {"shares", "capitalization", "constructed", "raised"}
    THEN Range(delisted_tickers)
    ELSE {}

\* C15: for every ticker reconciled from fallback rows whose window end is
\* later than the last fallback date, the calendar dates after the last
\* fallback date up to and including the window end hold the last fallback
\* close and volume zero, and the dates of the fallback rows hold exactly the
\* fallback close and volume.
C15_FallbackRowsThenReplicatedClose ==
    \A t \in ReconciledTickers :
        LET f == Fallback(t)
            last == FallbackEnd(t)
            ed == env.win[t][2]
        IN (ed # None /\ last < ed[1]) =>
              /\ \A d \in Cal :
                    (last < d /\ d <= ed[1]) =>
                        /\ self.data[t].Close[d] = f[last].close
                        /\ self.data[t].Volume[d] = Zero
              /\ \A d \in DOMAIN f :
                    /\ self.data[t].Close[d] = f[d].close
                    /\ self.data[t].Volume[d] = f[d].volume

\* B, delisted, has a fallback row for the first date only and a window that
\* ends two dates later
C15_Witness ==
    /\ Constructed
    /\ "B" \in Range(delisted_tickers)
    /\ env.win["B"][2] = Some(FirstDay + 2)
    /\ FallbackEnd("B") = FirstDay
    /\ self.data["B"].Close[FirstDay + 2] = Num(Price("B", FirstDay))
    /\ self.data["B"].Volume[FirstDay + 2] = Zero
    /\ self.data["B"].Volume[FirstDay] = Num(Traded("B", FirstDay) + 1)

\* C16: capitalization(frequency, tickers) with a non-empty ticker subset
\* returns, for each period, the mean over the period's dates of the sum of
\* close x shares outstanding over the subset's tickers active on the date,
\* a ticker outside its window contributing zero.
C16_SubsetCapitalization ==
    (/\ result.call # << >>
     /\ result.call[1] = "capitalization"
     /\ result.call[3] # None) =>
        LET f == result.call[2]
            subset == Range(result.call[3][1])
            daily == [d \in Cal |->
                        SumOver({t \in subset : WindowContains(t, d)},
                                CloseTimesShares(d))]
        IN /\ result.raised = ""
           /\ result.value = DropNa(Resampled(daily, f))

\* the tickers whose window end is None, the forward yield the feed reports
\* (a missing one counting as 0), and the tickers in the last date's total
EndIsNone == {t \in Tickers : env.win[t][2] = None}
ForwardYield(t) == IF InfoDividendYield(t) = None THEN Zero ELSE InfoDividendYield(t)[1]
CountedOnLastDate == {t \in Tickers : WindowContains(t, LastDay)}

\* C17: forward_dividend_yield is the sum over exactly the tickers whose
\* window end is None of latest close x latest shares outstanding x forward
\* yield, divided by the total capitalization of the panel's last date; when
\* every ticker counted in that total is currently active it lies between
\* the smallest and the largest yield of the constituents.
C17_ForwardDividendYield ==
    Constructed =>
        LET fdy == self.forward_dividend_yield
            weighted == [t \in Tickers |->
                            FMul(CloseTimesShares(LastDay)[t], ForwardYield(t))]
        IN /\ fdy = FDiv(SumOver(EndIsNone, weighted),
                         self.capitalization.Capitalization[LastDay])
           /\ CountedOnLastDate \subseteq EndIsNone =>
                 \E lo \in EndIsNone, hi \in EndIsNone :
                     /\ ~FLess(fdy, ForwardYield(lo))
                     /\ ~FLess(ForwardYield(hi), fdy)
                     /\ ~IsNaN(fdy)

\* A (yield 2%) and C (yield 4%) are current and B's window has ended: the
\* result lies strictly between the two yields
C17_Witness ==
    /\ Constructed
    /\ EndIsNone = {"A", "C"}
    /\ env.win["B"][2] = Some(FirstDay)
    /\ FLess(Rat(2, 100), self.forward_dividend_yield)
    /\ FLess(self.forward_dividend_yield, Rat(4, 100))

\* the feed's latest historical count, and whether it exceeds 1.2 times the
\* separately reported current count
LatestCount == env.series[LastDate(env.series)]
ExceedsCurrent == env.so # None /\ 10 * LatestCount > 12 * env.so[1]
\* x is n * num / den cut to an integer
IsScaled(x, n, num, den) == x[2] = 1 /\ x[1] * den <= n * num /\ n * num < (x[1] + 1) * den

\* C11 as stated: whenever the latest count exceeds 1.2 times the current
\* count, the corrected latest value is the current count within integer
\* rounding and every point is scaled by current / latest.
C11_CorrectedLatestIsCurrent ==
    (pc = "resolved" /\ env.source = "feed" /\ ExceedsCurrent) =>
        LET out == self.shares_outst
            latest == out[LastDate(env.series)]
        IN /\ latest[2] = 1
           /\ latest[1] \in (env.so[1] - 1)..(env.so[1] + 1)
           /\ \A d \in DOMAIN out :
                 IsScaled(out[d], env.series[d], env.so[1], LatestCount)

\* C11 amended: the feed's series is corrected exactly when its latest count
\* exceeds 1.2 times the current count; every point is then scaled by
\* current / implied count when the feed reports an implied count and by
\* current / latest otherwise, cut to an integer; only in the second case is
\* the corrected latest value the current count.
C11_ScaledByCurrentOverImpliedOrLatest ==
    (pc = "resolved" /\ env.source = "feed") =>
        LET out == self.shares_outst
            by == IF env.so2 = None THEN LatestCount ELSE env.so2[1]
        IN /\ DOMAIN out = DOMAIN env.series
           /\ ~ExceedsCurrent => out = AsSeries(env.series)
           /\ ExceedsCurrent =>
                 /\ \A d \in DOMAIN out :
                       IsScaled(out[d], env.series[d], env.so[1], by)
                 /\ env.so2 = None => out[LastDate(env.series)] = Num(env.so[1])

\* latest 30 against a current count of 10, no implied count: the latest
\* becomes 10 and the earlier 12 becomes 4
C11_Witness ==
    /\ pc = "resolved"
    /\ env.source = "feed"
    /\ env.so = Some(10)
    /\ env.so2 = None
    /\ \E d1 \in DOMAIN env.series, d2 \in DOMAIN env.series :
          /\ d1 < d2
          /\ env.series[d1] = 12 /\ env.series[d2] = 30
          /\ self.shares_outst[d2] = Num(10)
          /\ self.shares_outst[d1] = Num(4)

-----------------------------------------------------------------------------
(* Properties of the replay of the change log (SpecReplay) *)

ReplayOver == rp.pc \in {"returned", "raised"}
Replayed == {k \in DOMAIN rp.log : EventDay(k) >= rp.start}
Cell(c) == IF c = None THEN {} ELSE Range(c[1])
AddedAt(k) == Cell(rp.log[k].added)
RemovedAt(k) == Cell(rp.log[k].removed)

\* some ticker is added by two replayed events with no removal between them
TwoStartsWithoutRemoval ==
    \E k1 \in Replayed, k2 \in Replayed :
        /\ k1 < k2
        /\ \E x \in AddedAt(k1) \cap AddedAt(k2) :
              \A k \in k1..k2 : x \notin RemovedAt(k)

RemovedWhileTracked ==
    \E k \in Replayed : \E x \in RemovedAt(k) :
        \/ x \in Range(rp.components)
        \/ \E k2 \in Replayed : k2 > k /\ x \in RemovedAt(k2)

AddedIn == UNION {AddedAt(k) : k \in Replayed}
RemovedIn == UNION {RemovedAt(k) : k \in Replayed}

\* what the claim says of the current members the replayed events do not
\* mention, of the removed tickers, and of the events older than start
WindowsOfRemovedAndUnmentioned ==
    /\ DOMAIN rp.ret = Range(rp.components) \cup RemovedIn
    /\ \A x \in Range(rp.components) \ (AddedIn \cup RemovedIn) :
          rp.ret[x] = <<Some(rp.start), None>>
    /\ \A k \in Replayed : \A x \in RemovedAt(k) :
          /\ rp.ret[x][2] = Some(EventDay(k) - 1)
          /\ x \in Range(rp.all_components)
    /\ \A x \in DOMAIN rp.ret :
          /\ x \notin AddedIn => rp.ret[x][1] = Some(rp.start)
          /\ x \notin RemovedIn => rp.ret[x][2] = None

====
